---- MODULE Spec2Model ----
(***************************************************************************)
(* Inverted index with positions, Boolean search (AND / OR / NOT) and      *)
(* phrase search, as implemented in app.py.                                *)
(*                                                                         *)
(* Representation of Python values:                                        *)
(*   - a text is a sequence of chunks; a chunk is a maximal run of         *)
(*     characters of one class: a run of letters ("cat"), a run of digits  *)
(*     ("7"), one punctuation character ("!") or a run of whitespace (" ") *)
(*   - a token / term / query word is the sequence of the chunks it is     *)
(*     made of (<<"cat">>, <<"cat", "!">>), i.e. their concatenation       *)
(*   - a dict is a function whose DOMAIN is the set of keys                *)
(*   - a key of a postings dict is an int (built index) or the str that    *)
(*     json.dumps makes of it (loaded index): IntKey(d), StrKey(d)         *)
(***************************************************************************)
EXTENDS Integers, Sequences, FiniteSets, TLC

(* ------------------------------------------------------------------ *)
(* Built-in stopwords                                                 *)
(* ------------------------------------------------------------------ *)
STOPWORDS_EN ==
    {"a","an","and","are","as","at","be","by","for","from","has","he","in","is","it",
     "its","of","on","that","the","to","was","were","will","with","this","these","those",
     "or","not","but","we","you","your","our"}

STOPWORDS_ID ==
    {"yang","dan","di","ke","dari","untuk","pada","dengan","adalah","itu","ini","ada",
     "atau","tidak","saya","kami","kita","anda","dia","mereka","sebagai","sebuah","para",
     "dalam","ke","sebuah","akan","lagi","serta","atau"}

(* ------------------------------------------------------------------ *)
(* Character classes of the chunks used in the corpora                *)
(* ------------------------------------------------------------------ *)
SPACE == " "
DigitRuns == {"7"}          \* matched by \d+
PunctChars == {"!"}         \* matched by [^\w\s]

\* str.lower() on one chunk
Lower(c) ==
    CASE c = "Cat" -> "cat"
      [] c = "AND" -> "and"
      [] c = "OR"  -> "or"
      [] c = "NOT" -> "not"
      [] OTHER     -> c

\* re.sub(r"\d+", " ", text)
SubDigits(c) == IF c \in DigitRuns THEN SPACE ELSE c
\* re.sub(r"[^\w\s]", " ", text)
SubPunct(c) == IF c \in PunctChars THEN SPACE ELSE c

\* re.sub(r"\s+", " ", text).strip() followed by text.split(): the maximal
\* runs of non-whitespace chunks, in order.  cur is the run being read.
RECURSIVE SplitFrom(_, _, _)
SplitFrom(text, i, cur) ==
    IF i > Len(text)
    THEN IF cur = <<>> THEN <<>> ELSE <<cur>>
    ELSE IF text[i] = SPACE
         THEN (IF cur = <<>> THEN <<>> ELSE <<cur>>) \o SplitFrom(text, i + 1, <<>>)
         ELSE SplitFrom(text, i + 1, Append(cur, text[i]))

Split(text) == SplitFrom(text, 1, <<>>)

\* the token t is the string w of a stopword set
InStopwords(t, sw) == Len(t) = 1 /\ t[1] \in sw

tokenize(text, o) ==
    LET t1 == IF o.lowercase THEN [j \in 1..Len(text) |-> Lower(text[j])] ELSE text
        t2 == IF o.remove_digits THEN [j \in 1..Len(t1) |-> SubDigits(t1[j])] ELSE t1
        t3 == IF o.remove_punct THEN [j \in 1..Len(t2) |-> SubPunct(t2[j])] ELSE t2
        tokens == Split(t3)
        sw == IF o.lang = "id" THEN STOPWORDS_ID ELSE STOPWORDS_EN
    IN  IF o.use_stop
        THEN SelectSeq(tokens, LAMBDA t : ~InStopwords(t, sw))
        ELSE tokens

(* ------------------------------------------------------------------ *)
(* Inverted index builder                                             *)
(* ------------------------------------------------------------------ *)
IntKey(d) == <<"int", d>>
StrKey(d) == <<"str", d>>      \* str(d), the decimal rendering of d

\* d[k] = v on a dict
DictSet(d, k, v) == [x \in DOMAIN d \cup {k} |-> IF x = k THEN v ELSE d[x]]

\* AppendPos with the position list overwritten instead of appended to
AppendPos_Overwrite(vocab, term, doc_id, pos) ==
    LET entry == IF term \in DOMAIN vocab THEN vocab[term]
                 ELSE [df |-> 0, postings |-> <<>>]
    IN  DictSet(vocab, term,
                [entry EXCEPT !.postings = DictSet(entry.postings, doc_id, <<pos>>)])

\* vocab[term]["postings"][doc_id].append(pos) on the nested defaultdicts:
\* a missing term gets {"df": 0, "postings": {}}, a missing doc_id gets []
AppendPos(vocab, term, doc_id, pos) ==
    LET entry == IF term \in DOMAIN vocab THEN vocab[term]
                 ELSE [df |-> 0, postings |-> <<>>]
        plist == IF doc_id \in DOMAIN entry.postings THEN entry.postings[doc_id]
                 ELSE <<>>
    IN  DictSet(vocab, term,
                [entry EXCEPT !.postings = DictSet(entry.postings, doc_id, Append(plist, pos))])

\* for pos, term in enumerate(tokens): ...    (tokens[pos + 1] is Python's tokens[pos])
RECURSIVE ScanTokens(_, _, _, _)
ScanTokens(vocab, doc_id, tokens, pos) ==
    IF pos >= Len(tokens) THEN vocab
    ELSE ScanTokens(AppendPos(vocab, tokens[pos + 1], IntKey(doc_id), pos),
                    doc_id, tokens, pos + 1)

\* for doc_id, text in enumerate(docs): ...
RECURSIVE ScanDocs(_, _, _, _)
ScanDocs(vocab, docs_, o, doc_id) ==
    IF doc_id >= Len(docs_) THEN vocab
    ELSE ScanDocs(ScanTokens(vocab, doc_id, tokenize(docs_[doc_id + 1], o), 0),
                  docs_, o, doc_id + 1)

\* entry["df"] = len(entry["postings"])
SetDf(entry) == [entry EXCEPT !.df = Cardinality(DOMAIN entry.postings)]

build_inverted_index(docs_, o) ==
    LET vocab == ScanDocs(<<>>, docs_, o, 0)
    IN  [index |-> [term \in DOMAIN vocab |-> SetDf(vocab[term])],
         num_docs |-> Len(docs_)]


(* ------------------------------------------------------------------ *)
(* Vocabulary statistics                                              *)
(* ------------------------------------------------------------------ *)
\* code-point order of the chunks used in the corpora; no chunk is a prefix
\* of another, so comparing tokens chunk by chunk is comparing the strings
ChunkRank(c) ==
    CASE c = "!"   -> 1
      [] c = "7"   -> 2
      [] c = "AND" -> 3
      [] c = "Cat" -> 4
      [] c = "NOT" -> 5
      [] c = "OR"  -> 6
      [] c = "and" -> 7
      [] c = "cat" -> 8
      [] c = "dan" -> 9
      [] c = "dog" -> 10
      [] c = "fox" -> 11
      [] c = "not" -> 12
      [] c = "or"  -> 13
      [] OTHER     -> 14

\* s < t for two strings
RECURSIVE StrLess(_, _)
StrLess(s, t) ==
    IF t = <<>> THEN FALSE
    ELSE IF s = <<>> THEN TRUE
    ELSE IF ChunkRank(s[1]) # ChunkRank(t[1]) THEN ChunkRank(s[1]) < ChunkRank(t[1])
    ELSE StrLess(Tail(s), Tail(t))

\* sum(len(positions) for positions in entry["postings"].values())
RECURSIVE SumLens(_, _)
SumLens(postings, keys) ==
    IF keys = {} THEN 0
    ELSE LET k == CHOOSE x \in keys : TRUE
         IN  Len(postings[k]) + SumLens(postings, keys \ {k})

CollectionFrequency(entry) == SumLens(entry.postings, DOMAIN entry.postings)

\* key=lambda x: (-x[1], x[0])
RowBefore(r1, r2) ==
    \/ r1[2] > r2[2]
    \/ r1[2] = r2[2] /\ StrLess(r1[1], r2[1])

\* rows.sort(...): terms are distinct, so the order is total
RECURSIVE SortRows(_)
SortRows(rs) ==
    IF rs = {} THEN <<>>
    ELSE LET m == CHOOSE r \in rs : \A r2 \in rs \ {r} : RowBefore(r, r2)
         IN  <<m>> \o SortRows(rs \ {m})

vocabulary_stats(idx) ==
    SortRows({<<term, idx.index[term].df, CollectionFrequency(idx.index[term])>> :
                term \in DOMAIN idx.index})

(* ------------------------------------------------------------------ *)
(* Boolean search                                                     *)
(* ------------------------------------------------------------------ *)
AND == <<"AND">>
OR == <<"OR">>
NOT == <<"NOT">>
Operators == {AND, OR, NOT}

None == [none |-> TRUE]

\* DictGet as a lookup that creates the entry it misses, as vocab[k] does on
\* the builder's defaultdict
DictGet_Vivify(d, k) ==
    LET e == IF k \in DOMAIN d THEN d[k] ELSE [df |-> 0, postings |-> <<>>]
    IN  [found |-> TRUE, value |-> e, dict |-> DictSet(d, k, e)]

\* d.get(k): the value or None, and the dict after the lookup
DictGet(d, k) ==
    [found |-> k \in DOMAIN d,
     value |-> IF k \in DOMAIN d THEN d[k] ELSE None,
     dict  |-> d]

\* term_docs: set(entry["postings"].keys()) if entry else set()
term_docs(term, idx) ==
    LET g == DictGet(idx.index, term)
    IN  [docs  |-> IF g.found THEN DOMAIN g.value.postings ELSE {},
         index |-> [idx EXCEPT !.index = g.dict]]

\* Universe as the documents that have postings
Universe_Indexed(idx) == UNION {DOMAIN idx.index[t].postings : t \in DOMAIN idx.index}

\* set(range(index["num_docs"]))
Universe(idx) == {IntKey(d) : d \in 0..(idx.num_docs - 1)}

\* prec = {"NOT":3, "AND":2, "OR":1}; prec.get(op, 0)
Prec(op) ==
    CASE op = NOT -> 3
      [] op = AND -> 2
      [] op = OR  -> 1
      [] OTHER    -> 0

Top(s) == s[Len(s)]
Pop(s) == SubSeq(s, 1, Len(s) - 1)

\* A run of boolean_search: the two stacks, whether list.pop() raised
\* IndexError, and the index as the lookups left it.
\* apply_op(): called with a non-empty op_stack
apply_op(st) ==
    LET op == Top(st.ops)
        s1 == [st EXCEPT !.ops = Pop(st.ops)]
    IN  IF op = NOT
        THEN IF Len(s1.out) < 1
             THEN [s1 EXCEPT !.raised = TRUE]
             ELSE [s1 EXCEPT !.out = Append(Pop(s1.out), Universe(s1.index) \ Top(s1.out))]
        ELSE IF Len(s1.out) < 2
             THEN [s1 EXCEPT !.raised = TRUE, !.out = <<>>]
             ELSE LET b == Top(s1.out)
                      a == Top(Pop(s1.out))
                      r == IF op = AND THEN a \cap b ELSE a \cup b
                  IN  [s1 EXCEPT !.out = Append(Pop(Pop(s1.out)), r)]

\* Reduce with > in place of >=
RECURSIVE Reduce_Strict(_, _)
Reduce_Strict(st, tok) ==
    IF ~st.raised /\ st.ops # <<>> /\ Prec(Top(st.ops)) > Prec(tok)
    THEN Reduce_Strict(apply_op(st), tok)
    ELSE st

\* while op_stack and prec.get(op_stack[-1],0) >= prec[tok]: apply_op()
RECURSIVE Reduce(_, _)
Reduce(st, tok) ==
    IF ~st.raised /\ st.ops # <<>> /\ Prec(Top(st.ops)) >= Prec(tok)
    THEN Reduce(apply_op(st), tok)
    ELSE st

\* the body of "for tok in tokens"
ProcessToken(st, tok) ==
    IF tok \in Operators
    THEN LET r == Reduce(st, tok)
         IN  IF r.raised THEN r ELSE [r EXCEPT !.ops = Append(r.ops, tok)]
    ELSE LET t == term_docs(tok, st.index)
         IN  [st EXCEPT !.out = Append(st.out, t.docs), !.index = t.index]

\* while op_stack: apply_op()
RECURSIVE Drain(_)
Drain(st) ==
    IF ~st.raised /\ st.ops # <<>> THEN Drain(apply_op(st)) ELSE st

\* return out_stack[-1] if out_stack else set()
Result(st) == IF st.out # <<>> THEN Top(st.out) ELSE {}

StartState(idx) == [out |-> <<>>, ops |-> <<>>, raised |-> FALSE, index |-> idx]

RECURSIVE ScanQuery(_, _, _)
ScanQuery(st, tokens, i) ==
    IF st.raised \/ i >= Len(tokens) THEN st
    ELSE ScanQuery(ProcessToken(st, tokens[i + 1]), tokens, i + 1)

\* boolean_search(query, index); tokens is query.strip().split()
boolean_search(tokens, idx) ==
    IF tokens = <<>>
    THEN [raised |-> FALSE, hits |-> {}, index |-> idx]
    ELSE LET st == Drain(ScanQuery(StartState(idx), tokens, 0))
         IN  [raised |-> st.raised,
              hits   |-> IF st.raised THEN {} ELSE Result(st),
              index  |-> st.index]

(* ------------------------------------------------------------------ *)
(* Phrase search                                                      *)
(* ------------------------------------------------------------------ *)
\* for w in words[1:]: the running intersection of the documents of the words;
\* ok is FALSE once the loop has returned set()
RECURSIVE Candidates(_, _, _, _)
Candidates(cands, dict, words, i) ==
    IF i > Len(words) THEN [ok |-> TRUE, cands |-> cands, dict |-> dict]
    ELSE LET g == DictGet(dict, words[i])
         IN  IF ~g.found THEN [ok |-> FALSE, cands |-> {}, dict |-> g.dict]
             ELSE LET c == cands \cap DOMAIN g.value.postings
                  IN  IF c = {} THEN [ok |-> FALSE, cands |-> {}, dict |-> g.dict]
                      ELSE Candidates(c, g.dict, words, i + 1)

\* Shifted without the shift
Shifted_NoShift(plist, i) == {plist[j] : j \in 1..Len(plist)}

\* {p - i for p in positions_lists[i]}    (i counted from 0)
Shifted(plist, i) == {plist[j] - i : j \in 1..Len(plist)}

\* set.intersection(*shifted_sets)
RECURSIVE InterAll(_, _)
InterAll(sets, i) ==
    IF i = Len(sets) THEN sets[i] ELSE sets[i] \cap InterAll(sets, i + 1)

\* the body of "for d in candidate_docs"
PhraseMatch(dict, words, d) ==
    LET positions_lists == [i \in 1..Len(words) |-> dict[words[i]].postings[d]]
        shifted_sets == [i \in 1..Len(words) |-> Shifted(positions_lists[i], i - 1)]
    IN  InterAll(shifted_sets, 1) # {}

\* phrase_search that stops after the first word
phrase_search_FirstWord(words, idx) ==
    [hits  |-> IF words # <<>> /\ words[1] \in DOMAIN idx.index
               THEN DOMAIN idx.index[words[1]].postings ELSE {},
     index |-> idx]

\* phrase_search(phrase, index); words is phrase.split()
phrase_search(words, idx) ==
    IF words = <<>> THEN [hits |-> {}, index |-> idx]
    ELSE LET first == DictGet(idx.index, words[1])
         IN  IF ~first.found
             THEN [hits |-> {}, index |-> [idx EXCEPT !.index = first.dict]]
             ELSE LET c == Candidates(DOMAIN first.value.postings, first.dict, words, 2)
                  IN  [hits  |-> IF c.ok
                                 THEN {d \in c.cands : PhraseMatch(c.dict, words, d)}
                                 ELSE {},
                       index |-> [idx EXCEPT !.index = c.dict]]

(* ------------------------------------------------------------------ *)
(* Save / load of the index as JSON                                   *)
(* ------------------------------------------------------------------ *)
\* A JSON text is the tree of its values; an object is the set of its
\* <<name, value>> members, and every name is a str.
\* json.dumps turns an int key into str(key) and keeps a str key
JsonKey(k) == IF k[1] = "int" THEN StrKey(k[2]) ELSE k

JsonPostings(postings) == {<<JsonKey(k), postings[k]>> : k \in DOMAIN postings}

JsonEntry(entry) == {<<"df", entry.df>>, <<"postings", JsonPostings(entry.postings)>>}

JsonTerms(dict) == {<<t, JsonEntry(dict[t])>> : t \in DOMAIN dict}

\* json.dumps(index, ensure_ascii=False)
json_dumps(idx) == {<<"index", JsonTerms(idx.index)>>, <<"num_docs", idx.num_docs>>}

\* the dict json.loads makes of an object: names stay str
ObjDict(members) ==
    [k \in {m[1] : m \in members} |-> (CHOOSE m \in members : m[1] = k)[2]]

LoadEntry(members) ==
    LET e == ObjDict(members)
    IN  [k \in DOMAIN e |-> IF k = "postings" THEN ObjDict(e[k]) ELSE e[k]]

LoadTerms(members) ==
    LET t == ObjDict(members)
    IN  [k \in DOMAIN t |-> LoadEntry(t[k])]

\* json.loads(up_idx.read().decode("utf-8"))
json_loads(text) ==
    LET top == ObjDict(text)
    IN  [k \in DOMAIN top |-> IF k = "index" THEN LoadTerms(top[k]) ELSE top[k]]

\* if "index" in data and "num_docs" in data
ValidSnapshot(data) == "index" \in DOMAIN data /\ "num_docs" \in DOMAIN data

(* ------------------------------------------------------------------ *)
(* Bounds and input sets                                              *)
(* ------------------------------------------------------------------ *)
MaxDocs == 2          \* documents in a corpus
MaxWords == 3         \* whitespace-separated words in a corpus, all documents together
MaxQueryLen == 4      \* tokens of a Boolean query evaluated token by token
MaxPhraseLen == 3     \* words of a phrase
MaxOperands == 3      \* operands of a Boolean expression
MaxNots == 2          \* NOT tokens in front of one operand

\* sidebar defaults, and each option switched the other way
OptDefault ==
    [lowercase |-> TRUE, remove_digits |-> FALSE, remove_punct |-> TRUE,
     lang |-> "id", use_stop |-> TRUE]
OptEnglish == [OptDefault EXCEPT !.lang = "en"]
OptKeepCase == [OptDefault EXCEPT !.lowercase = FALSE]
OptKeepPunct == [OptDefault EXCEPT !.remove_punct = FALSE]
OptNoDigits == [OptDefault EXCEPT !.remove_digits = TRUE]
OptKeepStop == [OptDefault EXCEPT !.use_stop = FALSE]
AllOptions == {OptDefault, OptEnglish, OptKeepCase, OptKeepPunct, OptNoDigits, OptKeepStop}

SeqsUpTo(S, n) == UNION {[1..k -> S] : k \in 0..n}

\* the words of a line, separated by single blanks
RECURSIVE JoinWords(_)
JoinWords(ws) ==
    IF ws = <<>> THEN <<>>
    ELSE IF Len(ws) = 1 THEN ws[1]
    ELSE ws[1] \o <<SPACE>> \o JoinWords(Tail(ws))

\* the corpora of exactly n documents with at most k words in all
RECURSIVE CorporaOf(_, _, _)
CorporaOf(raw, n, k) ==
    IF n = 0 THEN {<<>>}
    ELSE {<<JoinWords(ws)>> \o rest :
            <<ws, rest>> \in UNION {{w} \X CorporaOf(raw, n - 1, k - Len(w)) :
                                      w \in SeqsUpTo(raw, k)}}

\* a corpus has at least one document (an upload or paste with none is not loaded)
Corpora(raw) == UNION {CorporaOf(raw, n, MaxWords) : n \in 1..MaxDocs}

CAT == <<"cat">>
DOG == <<"dog">>
FOX == <<"fox">>

(* ------------------------------------------------------------------ *)
(* State                                                              *)
(* ------------------------------------------------------------------ *)
VARIABLES
    docs,        \* the corpus: st.session_state["docs"]
    opts,        \* the sidebar's preprocessing options
    index,       \* the index in use
    source,      \* "none", "built" (from the corpus) or "loaded" (from JSON)
    last_op,     \* the operation that ran last
    msg,         \* what the JSON loader reported
    rows,        \* vocabulary_stats' result
    query,       \* the tokens of the Boolean query, or the words of the phrase
    pc,          \* "idle", "scan" (inside boolean_search's loop) or "done"
    i,           \* number of query tokens processed
    out_stack,
    op_stack,
    hits,        \* the search's result
    raised       \* the search ended in IndexError

vars == <<docs, opts, index, source, last_op, msg, rows, query, pc, i,
          out_stack, op_stack, hits, raised>>

NoIndex == [index |-> <<>>, num_docs |-> 0]

InitWith(corpora, options) ==
    /\ docs \in corpora
    /\ opts \in options
    /\ index = NoIndex
    /\ source = "none"
    /\ last_op = "init"
    /\ msg = ""
    /\ rows = <<>>
    /\ query = <<>>
    /\ pc = "idle"
    /\ i = 0
    /\ out_stack = <<>>
    /\ op_stack = <<>>
    /\ hits = {}
    /\ raised = FALSE

NoSearch ==
    /\ query' = <<>>
    /\ pc' = "idle"
    /\ i' = 0
    /\ out_stack' = <<>>
    /\ op_stack' = <<>>
    /\ hits' = {}
    /\ raised' = FALSE

\* "Bangun Index dari Korpus"
Build ==
    /\ source = "none"
    /\ index' = build_inverted_index(docs, opts)
    /\ source' = "built"
    /\ last_op' = "build"
    /\ rows' = <<>>
    /\ NoSearch
    /\ UNCHANGED <<docs, opts, msg>>

\* The files a user holding the built index's download can upload: the
\* download itself, the download with every df edited, and the download
\* with one of the two top-level names removed.
IndexFiles(idx) ==
    LET saved == json_dumps(idx)
        edited == json_dumps([idx EXCEPT !.index =
                                 [t \in DOMAIN idx.index |->
                                    [idx.index[t] EXCEPT !.df = idx.index[t].df + 1]]])
    IN  {saved, edited,
         {m \in saved : m[1] # "num_docs"},
         {m \in saved : m[1] # "index"}}

\* tab "Muat Index JSON"
Upload ==
    /\ source = "built"
    /\ pc = "idle"
    /\ \E text \in IndexFiles(index) :
          LET data == json_loads(text)
          IN  IF ValidSnapshot(data)
              THEN /\ index' = data
                   /\ source' = "loaded"
                   /\ msg' = "Index JSON dimuat."
              ELSE /\ msg' = "Berkas bukan format index yang valid."
                   /\ UNCHANGED <<index, source>>
    /\ last_op' = "load"
    /\ rows' = <<>>
    /\ NoSearch
    /\ UNCHANGED <<docs, opts>>

\* "Eksplorasi Kosakata"
Stats ==
    /\ source # "none"
    /\ pc # "scan"
    /\ rows' = vocabulary_stats(index)
    /\ last_op' = "stats"
    /\ NoSearch
    /\ UNCHANGED <<docs, opts, index, source, msg>>

\* boolean_search from call to return, for a query of the set queries
BooleanSearch(queries) ==
    /\ source # "none"
    /\ pc = "idle"
    /\ \E q \in queries :
          LET r == boolean_search(q, index)
          IN  /\ hits' = r.hits
              /\ raised' = r.raised
              /\ index' = r.index
              /\ query' = q
              /\ i' = Len(q)
    /\ pc' = "done"
    /\ last_op' = "boolean"
    /\ rows' = <<>>
    /\ out_stack' = <<>>
    /\ op_stack' = <<>>
    /\ UNCHANGED <<docs, opts, source, msg>>

\* boolean_search token by token, for a query of the set queries: entry, up
\* to the "for tok in tokens" loop
BoolStart(queries) ==
    /\ source # "none"
    /\ pc = "idle"
    /\ \E q \in queries :
          /\ query' = q
          /\ pc' = IF q = <<>> THEN "done" ELSE "scan"
    /\ i' = 0
    /\ out_stack' = <<>>
    /\ op_stack' = <<>>
    /\ hits' = {}
    /\ raised' = FALSE
    /\ last_op' = "boolean"
    /\ rows' = <<>>
    /\ UNCHANGED <<docs, opts, index, source, msg>>

Running == [out |-> out_stack, ops |-> op_stack, raised |-> FALSE, index |-> index]

\* one iteration of "for tok in tokens"
BoolTok ==
    /\ pc = "scan"
    /\ i < Len(query)
    /\ LET st == ProcessToken(Running, query[i + 1])
       IN  /\ index' = st.index
           /\ raised' = st.raised
           /\ IF st.raised
              THEN /\ pc' = "done"
                   /\ out_stack' = <<>>
                   /\ op_stack' = <<>>
              ELSE /\ pc' = "scan"
                   /\ out_stack' = st.out
                   /\ op_stack' = st.ops
    /\ i' = i + 1
    /\ UNCHANGED <<docs, opts, source, last_op, msg, rows, query, hits>>

\* "while op_stack: apply_op()" and the return
BoolFinish ==
    /\ pc = "scan"
    /\ i = Len(query)
    /\ LET st == Drain(Running)
       IN  /\ index' = st.index
           /\ raised' = st.raised
           /\ hits' = IF st.raised THEN {} ELSE Result(st)
    /\ pc' = "done"
    /\ out_stack' = <<>>
    /\ op_stack' = <<>>
    /\ UNCHANGED <<docs, opts, source, last_op, msg, rows, query, i>>

\* the query box emptied: "Masukkan query dan pilih mode pencarian."
ClearQuery ==
    /\ pc = "done"
    /\ NoSearch
    /\ UNCHANGED <<docs, opts, index, source, last_op, msg, rows>>

\* phrase_search from call to return, for a phrase of the set phrases
PhraseSearch(phrases) ==
    /\ source # "none"
    /\ pc = "idle"
    /\ \E words \in phrases :
          LET r == phrase_search(words, index)
          IN  /\ hits' = r.hits
              /\ index' = r.index
              /\ query' = words
    /\ raised' = FALSE
    /\ pc' = "done"
    /\ last_op' = "phrase"
    /\ rows' = <<>>
    /\ i' = 0
    /\ out_stack' = <<>>
    /\ op_stack' = <<>>
    /\ UNCHANGED <<docs, opts, source, msg>>

(* ------------------------------------------------------------------ *)
(* Specifications                                                     *)
(* ------------------------------------------------------------------ *)
\* Building and reporting, over texts with capitals, stopwords of both
\* languages, punctuation and digits, under every option.
BuildWords == {<<"Cat">>, <<"dan">>, <<"AND">>, <<"cat", "!", "7">>}
InitBuild == InitWith(Corpora(BuildWords), AllOptions)
NextBuild == Build \/ Stats
SpecBuild == InitBuild /\ [][NextBuild]_vars

\* Boolean search token by token, over every token sequence.
QueryTokens == {CAT, DOG, AND, OR, NOT}
ScanCorpora == {<<CAT, <<>>>>, <<<<>>, CAT>>, <<CAT, CAT>>, <<CAT>>}
ScanQueries == SeqsUpTo(QueryTokens, MaxQueryLen)
InitScan == InitWith(ScanCorpora, {OptDefault})
NextScan ==
    \/ Build
    \/ BoolStart(ScanQueries)
    \/ BoolTok
    \/ BoolFinish
    \/ ClearQuery
SpecScan == InitScan /\ [][NextScan]_vars

\* Boolean expressions: operands joined by AND / OR, each operand a term
\* behind zero to MaxNots NOT tokens.
RECURSIVE Nots(_)
Nots(k) == IF k = 0 THEN <<>> ELSE <<NOT>> \o Nots(k - 1)

\* the expression of n operands: operand j is the term ts[j] behind ks[j] NOT
\* tokens, and os[j] joins operand j to operand j + 1
RECURSIVE Expression(_, _, _, _)
Expression(n, ks, ts, os) ==
    IF n = 1 THEN Nots(ks[1]) \o <<ts[1]>>
    ELSE Expression(n - 1, ks, ts, os) \o <<os[n - 1]>> \o Nots(ks[n]) \o <<ts[n]>>

Expressions(terms, n) ==
    {Expression(n, ks, ts, os) :
        ks \in [1..n -> 0..MaxNots], ts \in [1..n -> terms],
        os \in [1..(n - 1) -> {AND, OR}]}

PrecTerms == {CAT, DOG}
ExprQueries(terms) == UNION {Expressions(terms, n) : n \in 1..MaxOperands}
PrecQueries == ExprQueries(PrecTerms)
InitPrec == InitWith(Corpora(PrecTerms), {OptDefault})
NextPrec ==
    \/ Build
    \/ BooleanSearch(PrecQueries)
    \/ ClearQuery
SpecPrec == InitPrec /\ [][NextPrec]_vars

\* Searches from call to return, case kept so that a document's AND is a term.
QueryWords == {CAT, DOG, AND}
AlgebraQueries(terms) ==
    {<<x>> : x \in terms} \cup {<<NOT, x>> : x \in terms}
      \cup {<<x, op, y>> : <<x, op, y>> \in terms \X {AND, OR} \X terms}
QueryExprs == AlgebraQueries(QueryWords)
QueryPhrases == SeqsUpTo(QueryWords, MaxPhraseLen)
InitQuery == InitWith(Corpora(QueryWords), {OptKeepCase})
NextQuery ==
    \/ Build
    \/ Stats
    \/ BooleanSearch(QueryExprs)
    \/ PhraseSearch(QueryPhrases)
    \/ ClearQuery
SpecQuery == InitQuery /\ [][NextQuery]_vars

\* Save and load: the built index downloaded, uploaded again and queried.
LoadWords == {CAT, DOG}
LoadExprs == AlgebraQueries(LoadWords)
LoadPhrases == SeqsUpTo(LoadWords, 2)
InitLoad == InitWith(Corpora(LoadWords), {OptDefault})
NextLoad ==
    \/ Build
    \/ Upload
    \/ Stats
    \/ BooleanSearch(LoadExprs)
    \/ PhraseSearch(LoadPhrases)
    \/ ClearQuery
SpecLoad == InitLoad /\ [][NextLoad]_vars


(* ------------------------------------------------------------------ *)
(* Properties                                                         *)
(* ------------------------------------------------------------------ *)
\* the normalized token sequence of document d (d counted from 0)
Tokens(d) == tokenize(docs[d + 1], opts)

StrictlyIncreasing(s) == \A j \in 1..(Len(s) - 1) : s[j] < s[j + 1]

\* C8: after build_inverted_index the posting list of (t, d) is exactly the
\* strictly increasing sequence of the positions p with Tokens(d)[p] = t; a
\* (t, d) entry exists only when that sequence is not empty, a term is a key
\* only when it occurs in some document, every position of every document is
\* in the posting list of its token, and num_docs is the corpus length.
C8_PostingsExact ==
    source = "built" =>
        /\ index.num_docs = Len(docs)
        /\ \A t \in DOMAIN index.index :
              /\ DOMAIN index.index[t].postings # {}
              /\ \A k \in DOMAIN index.index[t].postings :
                    LET plist == index.index[t].postings[k]
                    IN  /\ k[1] = "int"
                        /\ k[2] \in 0..(Len(docs) - 1)
                        /\ plist # <<>>
                        /\ StrictlyIncreasing(plist)
                        /\ {plist[j] : j \in 1..Len(plist)} =
                             {p \in 0..(Len(Tokens(k[2])) - 1) : Tokens(k[2])[p + 1] = t}
        /\ \A d \in 0..(Len(docs) - 1) :
              \A p \in 0..(Len(Tokens(d)) - 1) :
                 /\ Tokens(d)[p + 1] \in DOMAIN index.index
                 /\ IntKey(d) \in DOMAIN index.index[Tokens(d)[p + 1]].postings
                 /\ \E j \in 1..Len(index.index[Tokens(d)[p + 1]].postings[IntKey(d)]) :
                       index.index[Tokens(d)[p + 1]].postings[IntKey(d)][j] = p

\* a built index over a corpus with a document without tokens, in which some
\* term occurs twice in one document
C8_Witness ==
    /\ source = "built"
    /\ \E d \in 0..(Len(docs) - 1) : Tokens(d) = <<>>
    /\ \E t \in DOMAIN index.index :
          \E k \in DOMAIN index.index[t].postings : Len(index.index[t].postings[k]) >= 2

\* C10: inside boolean_search, after each token, the operator stack is in
\* strictly increasing precedence from bottom to top, hence holds at most
\* three operators and no two of equal precedence.
C10_OpStackIncreasing ==
    pc = "scan" =>
        /\ \A j \in 1..(Len(op_stack) - 1) : Prec(op_stack[j]) < Prec(op_stack[j + 1])
        /\ Len(op_stack) <= 3

\* "NOT cat AND cat" read up to its last token: NOT was popped and applied
\* when AND came, and AND is on the stack
C10_Witness ==
    /\ pc = "scan"
    /\ i = 4
    /\ query = <<NOT, CAT, AND, CAT>>
    /\ op_stack = <<AND>>
    /\ Len(out_stack) = 2

\* an operator of the query has no operand to work on
MissingOperand(q) ==
    \E j \in 1..Len(q) :
       \/ /\ q[j] \in {AND, OR}
          /\ \/ j = 1
             \/ j = Len(q)
             \/ q[j - 1] \in Operators
             \/ q[j + 1] \in {AND, OR}
       \/ /\ q[j] = NOT
          /\ \/ j = Len(q)
             \/ q[j + 1] \in {AND, OR}

\* C1: boolean_search always returns, and returns the empty set for an empty
\* query and for a query with an operator that misses an operand.
C1_Total ==
    (pc = "done" /\ last_op = "boolean") =>
        /\ ~raised
        /\ (query = <<>> \/ MissingOperand(query)) => hits = {}

\* the documents holding the term, read off the index
TermSet(t, idx) == IF t \in DOMAIN idx.index THEN DOMAIN idx.index[t].postings ELSE {}

\* the pieces of q between the occurrences of sep
RECURSIVE Pieces(_, _, _)
Pieces(q, sep, cur) ==
    IF q = <<>> THEN <<cur>>
    ELSE IF q[1] = sep THEN <<cur>> \o Pieces(Tail(q), sep, <<>>)
    ELSE Pieces(Tail(q), sep, Append(cur, q[1]))

\* NOT ... NOT t: NOT is the complement in {0 .. num_docs - 1}
RECURSIVE OperandValue(_, _)
OperandValue(o, idx) ==
    IF o[1] = NOT
    THEN {IntKey(d) : d \in 0..(idx.num_docs - 1)} \ OperandValue(Tail(o), idx)
    ELSE TermSet(o[1], idx)

\* o1 AND ... AND on
AndValue(c, idx) ==
    LET os == Pieces(c, AND, <<>>)
    IN  {d \in OperandValue(os[1], idx) : \A j \in 1..Len(os) : d \in OperandValue(os[j], idx)}

\* c1 OR ... OR cn: NOT binds tighter than AND, AND tighter than OR
ExprValue(q, idx) ==
    LET cs == Pieces(q, OR, <<>>)
    IN  UNION {AndValue(cs[j], idx) : j \in 1..Len(cs)}

\* C2: for an expression of operands joined by AND / OR, each a term behind
\* zero or more NOT tokens, boolean_search returns the expression's value
\* under the precedence NOT > AND > OR.
C2_Precedence ==
    (pc = "done" /\ last_op = "boolean") =>
        /\ ~raised
        /\ hits = ExprValue(query, index)

DocIds == {IntKey(d) : d \in 0..(Len(docs) - 1)}

\* what a search gives, an IndexError read as the empty set
Given(r) == IF r.raised THEN {} ELSE r.hits

RECURSIVE AndJoin(_)
AndJoin(words) ==
    IF Len(words) = 1 THEN words
    ELSE <<words[1], AND>> \o AndJoin(Tail(words))

\* C5 as stated: for every non-empty sequence of words, also words spelled
\* AND, OR or NOT, the phrase's result is a subset of the result of
\* "w1 AND ... AND wn" (taken as empty where boolean_search raises).
C5_AnyWords ==
    (pc = "done" /\ last_op = "phrase" /\ query # <<>>) =>
        LET b == boolean_search(AndJoin(query), index)
        IN  hits \subseteq (IF b.raised THEN {} ELSE b.hits)

\* C5: for every non-empty sequence of words none of which is spelled AND,
\* OR or NOT, boolean_search("w1 AND ... AND wn") returns and the phrase's
\* result is a subset of what it returns.
C5_PhraseSubsetAnd ==
    (pc = "done" /\ last_op = "phrase" /\ query # <<>>
       /\ \A j \in 1..Len(query) : query[j] \notin Operators) =>
        LET b == boolean_search(AndJoin(query), index)
        IN  ~b.raised /\ hits \subseteq b.hits

\* a phrase of two words that matches one document, while another document
\* holds both words and does not match
C5_Witness ==
    /\ pc = "done" /\ last_op = "phrase"
    /\ Len(query) = 2 /\ query[1] \notin Operators /\ query[2] \notin Operators
    /\ hits # {}
    /\ boolean_search(AndJoin(query), index).hits \ hits # {}

\* C6: d is in phrase_search's result iff the words are the tokens of d at
\* some positions p, p+1, ..., p+n-1; an empty word list gives the empty set.
C6_PhraseAdjacency ==
    (pc = "done" /\ last_op = "phrase" /\ source = "built") =>
        hits = IF query = <<>> THEN {}
               ELSE {IntKey(d) : d \in
                       {d \in 0..(Len(docs) - 1) :
                          \E p \in 0..(Len(Tokens(d)) - Len(query)) :
                             \A j \in 1..Len(query) : Tokens(d)[p + j] = query[j]}}

\* "cat dog" matches "dog cat dog" from position 1
C6_Witness ==
    /\ pc = "done" /\ last_op = "phrase" /\ source = "built"
    /\ query = <<CAT, DOG>>
    /\ Tokens(0) = <<DOG, CAT, DOG>>
    /\ hits = {IntKey(0)}

\* C9: a step of boolean_search, phrase_search or vocabulary_stats leaves
\* the index as it was.
C9_QueriesKeepIndex ==
    [][last_op' \in {"boolean", "phrase", "stats"} => index' = index]_vars

\* a search for a term that is not in the index has returned
C9_Witness ==
    /\ pc = "done" /\ last_op \in {"boolean", "phrase"}
    /\ \E j \in 1..Len(query) : query[j] \notin Operators /\ query[j] \notin DOMAIN index.index

Built == build_inverted_index(docs, opts)

\* the documents a result names, whether by int or by str
Ids(keys) == {k[2] : k \in keys}

\* the postings of an entry read as doc id -> positions, whatever the keys' type
ById(entry) == {<<k[2], entry.postings[k]>> : k \in DOMAIN entry.postings}

\* C3: on the index saved as JSON and loaded back, every Boolean and phrase
\* query returns the documents it returns on the built index, and the loaded
\* index has the same terms, df, num_docs and doc id -> positions postings
\* (doc ids compared by value, so that "0" and 0 name the same document).
C3_RoundTrip ==
    (source = "loaded" /\ index = json_loads(json_dumps(Built)) /\ pc = "done") =>
        /\ DOMAIN index.index = DOMAIN Built.index
        /\ index.num_docs = Built.num_docs
        /\ \A t \in DOMAIN Built.index :
              /\ index.index[t].df = Built.index[t].df
              /\ ById(index.index[t]) = ById(Built.index[t])
        /\ ~raised
        /\ last_op = "boolean" => Ids(hits) = Ids(boolean_search(query, Built).hits)
        /\ last_op = "phrase" => Ids(hits) = Ids(phrase_search(query, Built).hits)

\* number of positions in all posting lists of an entry
Occurrences(entry) ==
    Cardinality({<<k, j>> \in (DOMAIN entry.postings) \X (1..MaxWords) :
                    j \in 1..Len(entry.postings[k])})

\* C7: in every index in use, built or loaded, each term's df is the number
\* of doc ids in its postings, and vocabulary_stats reports that df and the
\* sum of the posting-list lengths as cf.
C7_DfCf ==
    source # "none" =>
        /\ \A t \in DOMAIN index.index :
              index.index[t].df = Cardinality(DOMAIN index.index[t].postings)
        /\ last_op = "stats" =>
              /\ Len(rows) = Cardinality(DOMAIN index.index)
              /\ \A j \in 1..Len(rows) :
                    /\ rows[j][1] \in DOMAIN index.index
                    /\ rows[j][2] = Cardinality(DOMAIN index.index[rows[j][1]].postings)
                    /\ rows[j][3] = Occurrences(index.index[rows[j][1]])
====
